---- MODULE Spec2Model ----
(***************************************************************************)
(* A model of two packages of the CORD Python SDK:                         *)
(*   packages/config/src/config.py        init, connect, disconnect        *)
(*   packages/statement/src/statement.py  verify_data_structure,           *)
(*       build_from_update_properties,                                     *)
(*       verify_against_properties                                         *)
(* Four specifications share the module: SpecConfig (the connection        *)
(* manager), SpecVerify (verify_against_properties), SpecShape             *)
(* (verify_data_structure) and SpecBuild (build_from_update_properties).   *)
(***************************************************************************)
EXTENDS Integers, FiniteSets, Sequences, TLC

VARIABLES configuration, opened, closed, last,
          vpc, vargs, vfetch, vresult,
          sinput, soutcome, bcalls

configVars == <<configuration, opened, closed, last>>
verifyVars == <<vpc, vargs, vfetch, vresult>>
stmtVars == <<sinput, soutcome, bcalls>>
vars == <<configuration, opened, closed, last, vpc, vargs, vfetch, vresult, sinput, soutcome, bcalls>>

(***************************************************************************)
(* Bounds                                                                  *)
(***************************************************************************)
\* number of connection handles the transport opens in one behaviour
MaxHandles == 3
\* number of distinct values an ordinary configuration option takes
MaxOptValue == 2

(***************************************************************************)
(* ConfigService: the process-wide configuration store (a mapping).        *)
(***************************************************************************)
EmptyConfig == [k \in {} |-> 0]

ConfigService_set(cfg, configs) == configs

ConfigService_is_set(cfg, key) == key \in DOMAIN cfg

ConfigService_get(cfg, key) == cfg[key]

ConfigService_unset(cfg, key) == [k \in (DOMAIN cfg) \ {key} |-> cfg[k]]

(***************************************************************************)
(* config.py                                                               *)
(***************************************************************************)
\* the argument of init: absent (None) or a mapping
NoConfigs == [given |-> FALSE, map |-> EmptyConfig]

GivenConfigs(m) == [given |-> TRUE, map |-> m]

\* `configs or {}`: None and the empty mapping both become the empty mapping
OrEmpty(configs) == IF configs.given /\ DOMAIN configs.map # {} THEN configs.map ELSE EmptyConfig

\* init(configs): ConfigService.set(configs or {})
init(cfg, configs) == ConfigService_set(cfg, OrEmpty(configs))

\* what one connect call may meet: the registry file fails to load, the
\* transport raises SubstrateRequestException, the transport raises another
\* error, or the connection opens
ConnectOutcomes == {"registry_error", "request_exception", "other_error", "opened"}

connect_eager(cfg, outcome, h) ==
    IF outcome = "opened"
    THEN [config |-> init(cfg, GivenConfigs([k \in {"api"} |-> h])), ok |-> TRUE, ret |-> h, logged |-> FALSE]
    ELSE [config |-> IF outcome = "registry_error" THEN cfg ELSE init(cfg, GivenConfigs([k \in {"api"} |-> h])),
          ok |-> FALSE, ret |-> 0, logged |-> (outcome = "request_exception")]

connect_merging(cfg, outcome, h) ==
    IF outcome = "opened"
    THEN [config |-> [k \in (DOMAIN cfg) \cup {"api"} |-> IF k = "api" THEN h ELSE cfg[k]],
          ok |-> TRUE, ret |-> h, logged |-> FALSE]
    ELSE [config |-> cfg, ok |-> FALSE, ret |-> 0, logged |-> (outcome = "request_exception")]

\* connect(url): the new configuration, whether it returned, the handle
\* returned and whether the error was logged; h is the handle the transport
\* opens when it succeeds
connect(cfg, outcome, h) ==
    IF outcome = "opened"
    THEN [config |-> init(cfg, GivenConfigs([k \in {"api"} |-> h])), ok |-> TRUE, ret |-> h, logged |-> FALSE]
    ELSE [config |-> cfg, ok |-> FALSE, ret |-> 0, logged |-> (outcome = "request_exception")]

disconnect_keeping(cfg) ==
    IF ~ConfigService_is_set(cfg, "api")
    THEN [config |-> cfg, ret |-> FALSE, closes |-> {}]
    ELSE [config |-> cfg, ret |-> TRUE, closes |-> {ConfigService_get(cfg, "api")}]

\* disconnect(): the new configuration, the value returned and the handles
\* it closes
disconnect(cfg) ==
    IF ~ConfigService_is_set(cfg, "api")
    THEN [config |-> cfg, ret |-> FALSE, closes |-> {}]
    ELSE [config |-> ConfigService_unset(cfg, "api"), ret |-> TRUE,
          closes |-> {ConfigService_get(cfg, "api")}]

\* the handles that are open and not yet closed
Live == opened \ closed

\* the mappings a caller passes to init: an optional `opt` entry and an
\* optional `api` entry naming a handle the caller got from connect
InitMaps ==
    LET optional(k, vals) == {EmptyConfig} \cup {[x \in {k} |-> v] : v \in vals}
    IN {[k \in (DOMAIN a) \cup (DOMAIN b) |-> IF k \in DOMAIN a THEN a[k] ELSE b[k]] :
           a \in optional("api", opened), b \in optional("opt", 1..MaxOptValue)}

InitInputs == {NoConfigs} \cup {GivenConfigs(m) : m \in InitMaps}

NoCall == [op |-> "none", ok |-> TRUE, ret |-> 0, bool |-> FALSE, outcome |-> "none", keysBefore |-> {}, closes |-> {}]

InitConfigState ==
    /\ configuration = EmptyConfig
    /\ opened = {}
    /\ closed = {}
    /\ last = NoCall

DoInit ==
    /\ \E configs \in InitInputs :
         /\ configuration' = init(configuration, configs)
         /\ last' = [op |-> "init", ok |-> TRUE, ret |-> 0, bool |-> FALSE, outcome |-> "none",
                     keysBefore |-> DOMAIN configuration, closes |-> {}]
    /\ UNCHANGED <<opened, closed>>
    /\ UNCHANGED verifyVars
    /\ UNCHANGED stmtVars

DoConnect ==
    /\ \E outcome \in ConnectOutcomes :
         LET h == Cardinality(opened) + 1
             r == connect(configuration, outcome, h)
         IN /\ outcome = "opened" => Cardinality(opened) < MaxHandles
            /\ configuration' = r.config
            /\ opened' = IF outcome = "opened" THEN opened \cup {h} ELSE opened
            /\ last' = [op |-> "connect", ok |-> r.ok, ret |-> r.ret, bool |-> r.logged, outcome |-> outcome,
                        keysBefore |-> DOMAIN configuration, closes |-> {}]
    /\ UNCHANGED closed
    /\ UNCHANGED verifyVars
    /\ UNCHANGED stmtVars

DoDisconnect ==
    /\ LET r == disconnect(configuration)
       IN /\ configuration' = r.config
          /\ closed' = closed \cup r.closes
          /\ last' = [op |-> "disconnect", ok |-> TRUE, ret |-> 0, bool |-> r.ret, outcome |-> "none",
                      keysBefore |-> DOMAIN configuration, closes |-> r.closes]
    /\ UNCHANGED opened
    /\ UNCHANGED verifyVars
    /\ UNCHANGED stmtVars

(***************************************************************************)
(* statement.py: verify_against_properties                                 *)
(***************************************************************************)
\* Python's None; strings stand for themselves
None == "None"

\* truth value of an optional string argument (`if creator:`)
Truthy(v) == v \notin {None, ""}

EmptyDict == [k \in {} |-> ""]

\* the value fetch_statement_details_from_chain returns: None or a mapping
NoStatement == [found |-> FALSE, fields |-> EmptyDict]

StatementDetails(f) == [found |-> TRUE, fields |-> f]

\* `not statement_status`: None and the empty mapping are both false
IsFalsy(status) == ~status.found \/ DOMAIN status.fields = {}

\* exception classes that derive from Exception
ExceptionClasses == {"KeyError", "SubstrateRequestException", "StatementError"}

Returns(valid, msg) == [kind |-> "return", is_valid |-> valid, message |-> msg, exc |-> ""]

Raises(e) == [kind |-> "raise", is_valid |-> FALSE, message |-> <<>>, exc |-> e]

NotFoundMessage(digest) == <<"Statement details for \"", digest, "\" not found.">>

DigestMismatchMessage == <<"Digest does not match with Statement Digest.">>

RevokedMessage(stmt_uri) == <<"Statement \"", stmt_uri, "\" Revoked.">>

CreatorMismatchMessage == <<"Statement and Digest creator does not match.">>

SpaceMismatchMessage == <<"Statement and Digest space details does not match.">>

SchemaMismatchMessage == <<"Statement and Digest schema details does not match.">>

ValidMessage == <<"Digest properties provided are valid and match the statement details.">>

ErrorMessage(e) == <<"Error verifying properties: ", e>>

\* statement_status.get('revoked'): absent reads as None, which is false
GetRevoked(fields) == IF "revoked" \in DOMAIN fields THEN fields["revoked"] ELSE FALSE

verify_checks_creator_first(args, fetch) ==
    IF fetch.kind = "raises" THEN Raises(fetch.exc)
    ELSE LET f == fetch.status.fields
         IN IF IsFalsy(fetch.status) THEN Returns(FALSE, NotFoundMessage(args.digest))
            ELSE IF "digest" \notin DOMAIN f THEN Raises("KeyError")
            ELSE IF args.digest # f["digest"] THEN Returns(FALSE, DigestMismatchMessage)
            ELSE IF Truthy(args.creator) /\ "creator_uri" \notin DOMAIN f THEN Raises("KeyError")
            ELSE IF Truthy(args.creator) /\ args.creator # f["creator_uri"] THEN Returns(FALSE, CreatorMismatchMessage)
            ELSE IF GetRevoked(f) THEN Returns(FALSE, RevokedMessage(args.stmt_uri))
            ELSE IF Truthy(args.space_uri) /\ "space_uri" \notin DOMAIN f THEN Raises("KeyError")
            ELSE IF Truthy(args.space_uri) /\ args.space_uri # f["space_uri"] THEN Returns(FALSE, SpaceMismatchMessage)
            ELSE IF Truthy(args.schema_uri) /\ "schema_uri" \notin DOMAIN f THEN Raises("KeyError")
            ELSE IF Truthy(args.schema_uri) /\ args.schema_uri # f["schema_uri"] THEN Returns(FALSE, SchemaMismatchMessage)
            ELSE Returns(TRUE, ValidMessage)

\* the body of the try block: the awaited fetch, then the checks in program
\* order; a subscript of a key the mapping lacks raises KeyError
verify_checks(args, fetch) ==
    IF fetch.kind = "raises" THEN Raises(fetch.exc)
    ELSE LET f == fetch.status.fields
         IN IF IsFalsy(fetch.status) THEN Returns(FALSE, NotFoundMessage(args.digest))
            ELSE IF "digest" \notin DOMAIN f THEN Raises("KeyError")
            ELSE IF args.digest # f["digest"] THEN Returns(FALSE, DigestMismatchMessage)
            ELSE IF GetRevoked(f) THEN Returns(FALSE, RevokedMessage(args.stmt_uri))
            ELSE IF Truthy(args.creator) /\ "creator_uri" \notin DOMAIN f THEN Raises("KeyError")
            ELSE IF Truthy(args.creator) /\ args.creator # f["creator_uri"] THEN Returns(FALSE, CreatorMismatchMessage)
            ELSE IF Truthy(args.space_uri) /\ "space_uri" \notin DOMAIN f THEN Raises("KeyError")
            ELSE IF Truthy(args.space_uri) /\ args.space_uri # f["space_uri"] THEN Returns(FALSE, SpaceMismatchMessage)
            ELSE IF Truthy(args.schema_uri) /\ "schema_uri" \notin DOMAIN f THEN Raises("KeyError")
            ELSE IF Truthy(args.schema_uri) /\ args.schema_uri # f["schema_uri"] THEN Returns(FALSE, SchemaMismatchMessage)
            ELSE Returns(TRUE, ValidMessage)

except_fetch_errors_only(r) ==
    IF r.kind = "raise" /\ r.exc \in ExceptionClasses \ {"KeyError"}
    THEN Returns(FALSE, ErrorMessage(r.exc))
    ELSE r

\* `except Exception as error`: an exception of a class deriving from
\* Exception becomes a result
except_Exception(r) ==
    IF r.kind = "raise" /\ r.exc \in ExceptionClasses
    THEN Returns(FALSE, ErrorMessage(r.exc))
    ELSE r

verify_against_properties(args, fetch) == except_Exception(verify_checks(args, fetch))

StmtUris == {"stmt:cord:s1"}

VDigests == {"0xAA", "0xBB"}

VCreators == {"did:c1", "did:c2"}

VSpaces == {"space:s1", "space:s2"}

VSchemas == {"schema:x", "schema:y"}

VerifyArgs ==
    [stmt_uri : StmtUris, digest : VDigests, creator : VCreators \cup {None, ""},
     space_uri : VSpaces \cup {None}, schema_uri : VSchemas \cup {None}]

\* a mapping with at most the one key k
Optional(k, vals) == {EmptyDict} \cup {[x \in {k} |-> v] : v \in vals}

\* the mappings the chain may report, any field possibly missing
RemoteFields ==
    {d @@ c @@ sp @@ sc @@ r :
        d \in Optional("digest", VDigests),
        c \in Optional("creator_uri", VCreators),
        sp \in Optional("space_uri", VSpaces),
        sc \in Optional("schema_uri", VSchemas \cup {None}),
        r \in Optional("revoked", BOOLEAN)}

FetchOutcomes ==
    {[kind |-> "raises", status |-> NoStatement, exc |-> e] : e \in {"SubstrateRequestException", "StatementError"}}
    \cup {[kind |-> "returns", status |-> NoStatement, exc |-> ""]}
    \cup {[kind |-> "returns", status |-> StatementDetails(f), exc |-> ""] : f \in RemoteFields}

NoArgs == [stmt_uri |-> "", digest |-> "", creator |-> None, space_uri |-> None, schema_uri |-> None]

NoFetch == [kind |-> "none", status |-> NoStatement, exc |-> ""]

NoResult == [kind |-> "none", is_valid |-> FALSE, message |-> <<>>, exc |-> ""]

InitVerifyState ==
    /\ vpc = "idle"
    /\ vargs = NoArgs
    /\ vfetch = NoFetch
    /\ vresult = NoResult

\* the call runs up to `await fetch_statement_details_from_chain(stmt_uri)`
VerifyCall ==
    /\ vpc \in {"idle", "done"}
    /\ \E args \in VerifyArgs : vargs' = args
    /\ vpc' = "awaiting"
    /\ vfetch' = NoFetch
    /\ vresult' = NoResult
    /\ UNCHANGED configVars
    /\ UNCHANGED stmtVars

\* the fetch completes and the rest of the function runs
VerifyResume ==
    /\ vpc = "awaiting"
    /\ \E fetch \in FetchOutcomes :
         /\ vfetch' = fetch
         /\ vresult' = verify_against_properties(vargs, fetch)
    /\ vpc' = "done"
    /\ UNCHANGED vargs
    /\ UNCHANGED configVars
    /\ UNCHANGED stmtVars

(***************************************************************************)
(* statement.py: verify_data_structure and build_from_update_properties    *)
(***************************************************************************)
\* identifiers the identifier package accepts
ValidIdentifiers == {"space:cord:s1", "space:cord:s2", "schema:cord:x", "stmt:cord:a", "stmt:cord:a:aa", "stmt:cord:b"}

MalformedIdentifiers == {"space-cord-s1", "cord"}

\* check_identifier(uri): raises InvalidIdentifierError unless well formed
check_identifier_ok(uri) == uri \in ValidIdentifiers

Hex256A == "0xaaaaaaaaaaaaaaaaaaaaaaaaaaaaaaaaaaaaaaaaaaaaaaaaaaaaaaaaaaaaaaaa"

Hex256B == "0xbbbbbbbbbbbbbbbbbbbbbbbbbbbbbbbbbbbbbbbbbbbbbbbbbbbbbbbbbbbbbbbb"

\* the number of bits a hex string encodes; -1 for a value that is not a
\* hex string
HexBitLength(value) ==
    CASE value = Hex256A -> 256
      [] value = Hex256B -> 256
      [] value = "0xaabb" -> 16
      [] OTHER -> -1

DigestBits == 256

\* data_utils.verify_is_hex(value, bit_length): raises unless value is a
\* hex string of exactly bit_length bits
verify_is_hex_ok(value, bit_length) == HexBitLength(value) = bit_length

\* the statement identifier without its digest suffix
StatementIdent(uri) ==
    CASE uri = "stmt:cord:a" -> "a"
      [] uri = "stmt:cord:a:aa" -> "a"
      [] uri = "stmt:cord:b" -> "b"
      [] OTHER -> ""

\* update_statement_uri(stmt_uri, digest): the identifier of the old URI
\* with the new digest as suffix
update_statement_uri(stmt_uri, digest) == [ident |-> StatementIdent(stmt_uri), suffix |-> digest]

update_statement_uri_ok(stmt_uri) == StatementIdent(stmt_uri) # ""

Passed == [raised |-> "", field |-> ""]

Failed(e, k) == [raised |-> e, field |-> k]

verify_hex_first(input) ==
    IF "digest" \notin DOMAIN input THEN Failed("StatementHashMissingError", "digest")
    ELSE IF ~verify_is_hex_ok(input["digest"], DigestBits) THEN Failed("ValueError", "digest")
    ELSE IF "space_uri" \notin DOMAIN input THEN Failed("KeyError", "space_uri")
    ELSE IF ~check_identifier_ok(input["space_uri"]) THEN Failed("InvalidIdentifierError", "space_uri")
    ELSE IF "schema_uri" \in DOMAIN input /\ Truthy(input["schema_uri"]) /\ ~check_identifier_ok(input["schema_uri"])
         THEN Failed("InvalidIdentifierError", "schema_uri")
    ELSE Passed

verify_falsy_digest_missing(input) ==
    IF "digest" \notin DOMAIN input \/ ~Truthy(input["digest"]) THEN Failed("StatementHashMissingError", "digest")
    ELSE IF "space_uri" \notin DOMAIN input THEN Failed("KeyError", "space_uri")
    ELSE IF ~check_identifier_ok(input["space_uri"]) THEN Failed("InvalidIdentifierError", "space_uri")
    ELSE IF "schema_uri" \in DOMAIN input /\ Truthy(input["schema_uri"]) /\ ~check_identifier_ok(input["schema_uri"])
         THEN Failed("InvalidIdentifierError", "schema_uri")
    ELSE IF ~verify_is_hex_ok(input["digest"], DigestBits) THEN Failed("ValueError", "digest")
    ELSE Passed

\* verify_data_structure(input): the exception it raises and the field the
\* failing check read, or Passed
verify_data_structure(input) ==
    IF "digest" \notin DOMAIN input THEN Failed("StatementHashMissingError", "digest")
    ELSE IF "space_uri" \notin DOMAIN input THEN Failed("KeyError", "space_uri")
    ELSE IF ~check_identifier_ok(input["space_uri"]) THEN Failed("InvalidIdentifierError", "space_uri")
    ELSE IF "schema_uri" \in DOMAIN input /\ Truthy(input["schema_uri"]) /\ ~check_identifier_ok(input["schema_uri"])
         THEN Failed("InvalidIdentifierError", "schema_uri")
    ELSE IF ~verify_is_hex_ok(input["digest"], DigestBits) THEN Failed("ValueError", "digest")
    ELSE Passed

NoStatementBuilt == [element_uri |-> [ident |-> "", suffix |-> ""]]

build_update_fresh_uri(stmt_uri, digest, space_uri, creator_uri) ==
    IF ~update_statement_uri_ok(stmt_uri)
    THEN [outcome |-> Failed("InvalidIdentifierError", "stmt_uri"), statement |-> NoStatementBuilt]
    ELSE LET statement == [element_uri |-> [ident |-> space_uri, suffix |-> digest],
                           digest |-> digest, creator_uri |-> creator_uri, space_uri |-> space_uri]
             checked == verify_data_structure(statement)
         IN [outcome |-> checked, statement |-> IF checked = Passed THEN statement ELSE NoStatementBuilt]

\* build_from_update_properties(stmt_uri, digest, space_uri, creator_uri):
\* the exception propagated, or the record returned
build_from_update_properties(stmt_uri, digest, space_uri, creator_uri) ==
    IF ~update_statement_uri_ok(stmt_uri)
    THEN [outcome |-> Failed("InvalidIdentifierError", "stmt_uri"), statement |-> NoStatementBuilt]
    ELSE LET statement == [element_uri |-> update_statement_uri(stmt_uri, digest),
                           digest |-> digest, creator_uri |-> creator_uri, space_uri |-> space_uri]
             checked == verify_data_structure(statement)
         IN [outcome |-> checked, statement |-> IF checked = Passed THEN statement ELSE NoStatementBuilt]

\* number of build_from_update_properties calls compared with one another
MaxBuildCalls == 2

SDigests == {Hex256A, Hex256B, "0xaabb", "not-hex", None}

SSpaces == {"space:cord:s1", "space:cord:s2"} \cup MalformedIdentifiers

SSchemas == {"schema:cord:x", "cord", "", None}

SCreators == {"did:cord:c1", "did:cord:c2"}

SOldUris == {"stmt:cord:a", "stmt:cord:b", "cord"}

BDigests == {Hex256A, Hex256B, "0xaabb"}

BSpaces == {"space:cord:s1", "space:cord:s2", "cord"}

\* the statement entries handed to verify_data_structure, any key possibly
\* missing
StatementInputs ==
    {d @@ sp @@ sc :
        d \in Optional("digest", SDigests),
        sp \in Optional("space_uri", SSpaces),
        sc \in Optional("schema_uri", SSchemas)}

InitStmtState ==
    /\ sinput = EmptyDict
    /\ soutcome = [op |-> "none", raised |-> "", field |-> ""]
    /\ bcalls = <<>>

VerifyDataStructure ==
    /\ \E input \in StatementInputs :
         LET r == verify_data_structure(input)
         IN /\ sinput' = input
            /\ soutcome' = [op |-> "verify_data_structure", raised |-> r.raised, field |-> r.field]
    /\ UNCHANGED bcalls
    /\ UNCHANGED configVars
    /\ UNCHANGED verifyVars

BuildFromUpdateProperties ==
    /\ Len(bcalls) < MaxBuildCalls
    /\ \E stmt_uri \in SOldUris, digest \in BDigests, space_uri \in BSpaces, creator_uri \in SCreators :
         LET r == build_from_update_properties(stmt_uri, digest, space_uri, creator_uri)
         IN bcalls' = Append(bcalls, [stmt_uri |-> stmt_uri, digest |-> digest, space_uri |-> space_uri,
                                      creator_uri |-> creator_uri, outcome |-> r.outcome, statement |-> r.statement])
    /\ UNCHANGED <<sinput, soutcome>>
    /\ UNCHANGED configVars
    /\ UNCHANGED verifyVars

\* the caller drops the records it built
ForgetBuilt ==
    /\ bcalls # <<>>
    /\ bcalls' = <<>>
    /\ UNCHANGED <<sinput, soutcome>>
    /\ UNCHANGED configVars
    /\ UNCHANGED verifyVars

InitAll == InitConfigState /\ InitVerifyState /\ InitStmtState

NextConfig == DoInit \/ DoConnect \/ DoDisconnect

SpecConfig == InitAll /\ [][NextConfig]_vars

NextVerify == VerifyCall \/ VerifyResume

SpecVerify == InitAll /\ [][NextVerify]_vars

NextShape == VerifyDataStructure

SpecShape == InitAll /\ [][NextShape]_vars

NextBuild == BuildFromUpdateProperties \/ ForgetBuilt

SpecBuild == InitAll /\ [][NextBuild]_vars

(***************************************************************************)
(* Properties of the connection manager (checked under SpecConfig)         *)
(***************************************************************************)
TransportFailures == {"request_exception", "other_error"}

\* C3: after any sequence of init, connect and disconnect calls at most one
\* connection handle is open and not yet closed.
AtMostOneLiveHandle == Cardinality(Live) <= 1

\* C4: a connect call that fails (registry load or transport) leaves the
\* configuration exactly as it was before the call, and opens and closes no
\* handle.
FailedConnectChangesNothing ==
    [][(last'.op = "connect" /\ ~last'.ok) =>
          /\ configuration' = configuration
          /\ opened' = opened
          /\ closed' = closed]_vars

FailedConnectOverSettings ==
    /\ last.op = "connect"
    /\ ~last.ok
    /\ "opt" \in DOMAIN configuration

\* C5 as stated: after a connect that failed at the transport layer the
\* configuration has no `api` entry, whatever calls preceded it.
FailedConnectLeavesNoApi ==
    (last.op = "connect" /\ last.outcome \in TransportFailures) => ~ConfigService_is_set(configuration, "api")

\* C5 amended: a connect that fails at the transport layer leaves the `api`
\* entry as it was before the call; when none was stored before the call,
\* none is stored after it and a disconnect made immediately afterwards
\* returns false.
FailedConnectKeepsApiEntry ==
    [][/\ (last'.op = "connect" /\ last'.outcome \in TransportFailures) =>
             /\ ConfigService_is_set(configuration', "api") <=> ("api" \in last'.keysBefore)
             /\ ("api" \in last'.keysBefore) => configuration'["api"] = configuration["api"]
       /\ (/\ last.op = "connect"
           /\ last.outcome \in TransportFailures
           /\ "api" \notin last.keysBefore
           /\ last'.op = "disconnect") => (last'.bool = FALSE)]_vars

FailedConnectAfterHistory ==
    /\ last.op = "connect"
    /\ last.outcome \in TransportFailures
    /\ "api" \notin last.keysBefore
    /\ opened # {}
    /\ closed # {}

\* C6: disconnect returns false and changes nothing when no `api` handle is
\* stored; otherwise it removes the `api` entry, closes that handle and
\* returns true; the second of two disconnects in a row returns false and
\* closes nothing.
DisconnectContract ==
    [][/\ (last'.op = "disconnect") =>
             IF "api" \notin DOMAIN configuration
             THEN /\ last'.bool = FALSE
                  /\ configuration' = configuration
                  /\ opened' = opened
                  /\ closed' = closed
             ELSE /\ last'.bool = TRUE
                  /\ DOMAIN configuration' = (DOMAIN configuration) \ {"api"}
                  /\ \A k \in DOMAIN configuration' : configuration'[k] = configuration[k]
                  /\ closed' = closed \cup {configuration["api"]}
                  /\ opened' = opened
       /\ (last.op = "disconnect" /\ last'.op = "disconnect") =>
             /\ last'.bool = FALSE
             /\ closed' = closed]_vars

DisconnectClosedHandle ==
    /\ last.op = "disconnect"
    /\ last.bool = TRUE
    /\ last.closes # {}
    /\ last.closes \subseteq closed

\* C10: immediately after a successful connect the configuration holds
\* exactly one key, `api`, bound to the returned handle; every key set
\* before the call is gone.
ConnectReplacesConfiguration ==
    (last.op = "connect" /\ last.ok) =>
        /\ DOMAIN configuration = {"api"}
        /\ configuration["api"] = last.ret
        /\ last.ret \in Live

ConnectOverSettings ==
    /\ last.op = "connect"
    /\ last.ok
    /\ "opt" \in last.keysBefore
    /\ "api" \in last.keysBefore

(***************************************************************************)
(* Properties of verify_against_properties (checked under SpecVerify)      *)
(***************************************************************************)
RemoteFieldNames == {"digest", "creator_uri", "space_uri", "schema_uri", "revoked"}

\* an optional argument was supplied and the remote record holds another value
Differs(arg, fields, key) == arg \notin {None, ""} /\ key \in DOMAIN fields /\ fields[key] # arg

\* which of the six checks fail for the call and the fetched record
FailingChecks(args, status) ==
    LET f == status.fields
    IN [i \in 1..6 |->
          CASE i = 1 -> ~status.found \/ f = EmptyDict
            [] i = 2 -> "digest" \in DOMAIN f /\ f["digest"] # args.digest
            [] i = 3 -> "revoked" \in DOMAIN f /\ f["revoked"] = TRUE
            [] i = 4 -> Differs(args.creator, f, "creator_uri")
            [] i = 5 -> Differs(args.space_uri, f, "space_uri")
            [] i = 6 -> Differs(args.schema_uri, f, "schema_uri")]

CheckMessage(i, args) ==
    CASE i = 1 -> <<"Statement details for \"", args.digest, "\" not found.">>
      [] i = 2 -> <<"Digest does not match with Statement Digest.">>
      [] i = 3 -> <<"Statement \"", args.stmt_uri, "\" Revoked.">>
      [] i = 4 -> <<"Statement and Digest creator does not match.">>
      [] i = 5 -> <<"Statement and Digest space details does not match.">>
      [] i = 6 -> <<"Statement and Digest schema details does not match.">>

\* C1: the checks run in the order not-found, digest, revoked, creator,
\* space, schema; the result is that of the first failing check, and is
\* valid only when none fails; a revoked record with a matching digest gives
\* the revocation message whatever else mismatches.
ChecksInFixedOrder ==
    (vpc = "done" /\ vfetch.kind = "returns") =>
        LET fails == FailingChecks(vargs, vfetch.status)
            f == vfetch.status.fields
        IN /\ (IsFalsy(vfetch.status) \/ DOMAIN f = RemoteFieldNames) =>
                 IF \E i \in 1..6 : fails[i]
                 THEN LET first == CHOOSE i \in 1..6 : fails[i] /\ \A j \in 1..(i - 1) : ~fails[j]
                      IN /\ vresult.kind = "return"
                         /\ vresult.is_valid = FALSE
                         /\ vresult.message = CheckMessage(first, vargs)
                 ELSE /\ vresult.kind = "return"
                      /\ vresult.is_valid = TRUE
           /\ (vresult.kind = "return" /\ vresult.is_valid) => \A i \in 1..6 : ~fails[i]
           /\ (fails[3] /\ "digest" \in DOMAIN f /\ f["digest"] = vargs.digest) =>
                 /\ vresult.kind = "return"
                 /\ vresult.is_valid = FALSE
                 /\ vresult.message = CheckMessage(3, vargs)

RevokedWithEveryMismatch ==
    /\ vpc = "done"
    /\ vfetch.kind = "returns"
    /\ DOMAIN vfetch.status.fields = RemoteFieldNames
    /\ vfetch.status.fields["digest"] = vargs.digest
    /\ \A i \in 3..6 : FailingChecks(vargs, vfetch.status)[i]
    /\ vresult.message = CheckMessage(3, vargs)

\* C2: the call always completes with a result {is_valid, message}; when
\* the fetch raises or a comparison reads a missing field the result is
\* is_valid=false with a message beginning "Error verifying properties: ".
NeverRaises ==
    (vpc = "done") =>
        /\ vresult.kind = "return"
        /\ vresult.is_valid \in BOOLEAN
        /\ Len(vresult.message) >= 1
        /\ (vfetch.kind = "raises" \/ verify_checks(vargs, vfetch).kind = "raise") =>
              /\ vresult.is_valid = FALSE
              /\ vresult.message[1] = "Error verifying properties: "
        /\ (vfetch.kind = "raises") => vresult.message = <<"Error verifying properties: ", vfetch.exc>>
        /\ (vfetch.kind = "returns" /\ ~IsFalsy(vfetch.status) /\ "digest" \notin DOMAIN vfetch.status.fields) =>
              vresult.message = <<"Error verifying properties: ", "KeyError">>

MissingFieldBecomesResult ==
    /\ vpc = "done"
    /\ vfetch.kind = "returns"
    /\ "digest" \in DOMAIN vfetch.status.fields
    /\ "creator_uri" \notin DOMAIN vfetch.status.fields
    /\ vresult.kind = "return"
    /\ vresult.message = <<"Error verifying properties: ", "KeyError">>

(***************************************************************************)
(* Properties of verify_data_structure (checked under SpecShape)           *)
(***************************************************************************)
\* C7: verify_data_structure fails with StatementHashMissing exactly when
\* the digest key is absent, whatever space_uri and schema_uri are.
HashMissingIffDigestAbsent ==
    (soutcome.op = "verify_data_structure") =>
        ((soutcome.raised = "StatementHashMissingError") <=> ("digest" \notin DOMAIN sinput))

HashMissingWithMalformedSpace ==
    /\ soutcome.op = "verify_data_structure"
    /\ "digest" \notin DOMAIN sinput
    /\ "space_uri" \in DOMAIN sinput
    /\ sinput["space_uri"] \in MalformedIdentifiers
    /\ soutcome.raised = "StatementHashMissingError"

MalformedSpace == "space_uri" \in DOMAIN sinput /\ sinput["space_uri"] \in MalformedIdentifiers

\* C8 as stated: verify_data_structure fails with InvalidIdentifier for any
\* statement whose space_uri is malformed.
MalformedSpaceAlwaysInvalidIdentifier ==
    (soutcome.op = "verify_data_structure" /\ MalformedSpace) => (soutcome.raised = "InvalidIdentifierError")

\* C8 amended: verify_data_structure fails with InvalidIdentifier for any
\* statement that has a digest key and whose space_uri is malformed, whether
\* or not the digest is well-formed 256-bit hex; without a digest key it
\* fails with StatementHashMissing instead.
MalformedSpaceInvalidIdentifier ==
    (soutcome.op = "verify_data_structure" /\ MalformedSpace) =>
        IF "digest" \in DOMAIN sinput
        THEN soutcome.raised = "InvalidIdentifierError" /\ soutcome.field = "space_uri"
        ELSE soutcome.raised = "StatementHashMissingError"

MalformedSpaceWithBadDigest ==
    /\ soutcome.op = "verify_data_structure"
    /\ MalformedSpace
    /\ "digest" \in DOMAIN sinput
    /\ HexBitLength(sinput["digest"]) # 256
    /\ soutcome.raised = "InvalidIdentifierError"

(***************************************************************************)
(* Properties of build_from_update_properties (checked under SpecBuild)    *)
(***************************************************************************)
\* C9: two calls that agree on old_uri and digest and both pass validation
\* return the same element_uri, whatever space and creator are; the record
\* returned never carries a schema_uri.
ElementUriIgnoresSpaceAndCreator ==
    /\ \A i \in DOMAIN bcalls : \A j \in DOMAIN bcalls :
          (/\ bcalls[i].outcome = Passed
           /\ bcalls[j].outcome = Passed
           /\ bcalls[i].stmt_uri = bcalls[j].stmt_uri
           /\ bcalls[i].digest = bcalls[j].digest) =>
              bcalls[i].statement.element_uri = bcalls[j].statement.element_uri
    /\ \A i \in DOMAIN bcalls :
          (bcalls[i].outcome = Passed) =>
              DOMAIN bcalls[i].statement = {"element_uri", "digest", "creator_uri", "space_uri"}

SameUriDigestOtherSpaceCreator ==
    \E i \in DOMAIN bcalls : \E j \in DOMAIN bcalls :
        /\ bcalls[i].outcome = Passed
        /\ bcalls[j].outcome = Passed
        /\ bcalls[i].stmt_uri = bcalls[j].stmt_uri
        /\ bcalls[i].digest = bcalls[j].digest
        /\ bcalls[i].space_uri # bcalls[j].space_uri
        /\ bcalls[i].creator_uri # bcalls[j].creator_uri

====
